---- MODULE Spec2Model ----
(***************************************************************************)
(* qsiprep/workflows/dwi/resampling.py: the two workflow builders          *)
(* init_bold_mni_trans_wf and init_dwi_preproc_trans_wf, and the           *)
(* list-shaping helpers _aslist and _first.                                *)
(*                                                                         *)
(* A workflow is a set of created nodes, a set of connections and a set of *)
(* static inputs.  A builder is run statement by statement; a statement    *)
(* that looks up a name the module never binds raises NameError and the    *)
(* call ends there.                                                        *)
(***************************************************************************)
EXTENDS Naturals, Sequences, FiniteSets, TLC

VARIABLES
    mni_pc,        \* position inside init_bold_mni_trans_wf
    mni_args,      \* its keyword arguments
    mni_nodes,     \* pe.Node objects created so far
    mni_edges,     \* workflow.connect() entries made so far
    mni_inputs,    \* node.inputs.<port> = value assignments made so far
    dwi_pc,        \* position inside init_dwi_preproc_trans_wf
    dwi_args,
    dwi_nodes,
    dwi_edges,
    dwi_inputs,
    dwi_exc,       \* exception that ended the call ("" when none)
    in_value,      \* value handed to the _aslist helpers
    out_mni,       \* init_bold_mni_trans_wf._aslist(in_value)
    out_mni2,      \* that helper applied to its own result
    out_dwi,       \* init_dwi_preproc_trans_wf._aslist(in_value)
    out_first      \* _first(in_value)

wfvars == <<mni_pc, mni_args, mni_nodes, mni_edges, mni_inputs,
            dwi_pc, dwi_args, dwi_nodes, dwi_edges, dwi_inputs, dwi_exc>>
mnivars == <<mni_pc, mni_args, mni_nodes, mni_edges, mni_inputs>>
dwivars == <<dwi_pc, dwi_args, dwi_nodes, dwi_edges, dwi_inputs, dwi_exc>>
helpervars == <<in_value, out_mni, out_mni2, out_dwi, out_first>>
vars == <<mni_pc, mni_args, mni_nodes, mni_edges, mni_inputs,
          dwi_pc, dwi_args, dwi_nodes, dwi_edges, dwi_inputs, dwi_exc,
          in_value, out_mni, out_mni2, out_dwi, out_first>>

---------------------------------------------------------------------------
(* Module namespace                                                        *)

\* Names bound at module level: the imports, the constant and the three defs.
Globals ==
    {"op", "pe", "niu", "fs", "FSLSplit", "nid", "GenerateSamplingReference",
     "ApplyTransforms", "Workflow", "MultiApplyTransforms", "Merge",
     "TEMPLATE_MAP", "init_bold_reference_wf", "DEFAULT_MEMORY_MIN_GB",
     "init_bold_mni_trans_wf", "init_dwi_preproc_trans_wf", "_first"}

\* A statement runs iff every global name it reads is bound.
Resolves(names) == names \subseteq Globals

---------------------------------------------------------------------------
(* Graph vocabulary                                                        *)

\* pe.Node(iface(args), name=name); n is the slot count of a niu.Merge(n).
Node(name, iface, n, args) ==
    [name |-> name, iface |-> iface, n |-> n, args |-> args]

\* One (source, destination, [(out, inp)]) entry of workflow.connect();
\* fn is the function of a (field, function) source, "" when there is none.
Conn(src, out, fn, dst, inp) ==
    [src |-> src, out |-> out, fn |-> fn, dst |-> dst, inp |-> inp]

\* node.inputs.<port> = value
SetInput(node, port, value) == [node |-> node, port |-> port, value |-> value]

\* op.join(a, b)
join(a, b) == a \o "/" \o b

\* TEMPLATE_MAP[template]
template_str(template) == "TEMPLATE_MAP[" \o template \o "]"

\* nid.get_dataset(name)
get_dataset(name) == "get_dataset(" \o name \o ")"

\* str(bool)
PyBool(b) == IF b THEN "True" ELSE "False"

\* 'in%d' % k
Slot(k) == CASE k = 1 -> "in1" [] k = 2 -> "in2" [] k = 3 -> "in3"
             [] k = 4 -> "in4" [] OTHER -> "in?"

Template == "MNI152NLin2009cAsym"

\* Values of template_out_grid: the three keywords, a custom reference path,
\* and a string that is a keyword only up to case.
Grids == {"native", "1mm", "2mm", "/refs/custom_grid.nii.gz", "1MM"}

---------------------------------------------------------------------------
(* init_bold_mni_trans_wf                                                  *)

\* inputnode and outputnode
MniIONodes ==
    {Node("inputnode", "niu.IdentityInterface", 0,
          "fields=itk_bold_to_t1,t1_2_mni_forward_transform,name_source,bold_split,bold_mask,hmc_xforms,fieldwarp"),
     Node("outputnode", "niu.IdentityInterface", 0,
          "fields=bold_mni,bold_mni_ref,bold_mask_mni")}

\* gen_ref and its fixed image
MniGenRefNodes == {Node("gen_ref", "GenerateSamplingReference", 0, "")}

MniGenRefInputs(template) ==
    {SetInput("gen_ref", "fixed_image",
              join(get_dataset(template_str(template)), "1mm_T1.nii.gz"))}

\* mask_mni_tfm and mask_merge_tfms
MniMaskNodes ==
    {Node("mask_mni_tfm", "ApplyTransforms", 0, "interpolation=MultiLabel,float=True"),
     Node("mask_merge_tfms", "niu.Merge", 2, "")}

\* Variant of nxforms that ignores use_fieldwarp.
nxforms_fixed(use_fieldwarp) == 3

\* nxforms = 4 if use_fieldwarp else 3
nxforms(use_fieldwarp) == IF use_fieldwarp THEN 4 ELSE 3

MniMergeXformsNodes(use_fieldwarp) ==
    {Node("merge_xforms", "niu.Merge", nxforms(use_fieldwarp), "")}

\* hmc_xforms goes to the last slot of merge_xforms
MniHmcEdges(use_fieldwarp) ==
    {Conn("inputnode", "hmc_xforms", "", "merge_xforms", Slot(nxforms(use_fieldwarp)))}

\* if use_fieldwarp: fieldwarp goes to in3
MniFieldwarpEdges(use_fieldwarp) ==
    IF use_fieldwarp
    THEN {Conn("inputnode", "fieldwarp", "", "merge_xforms", "in3")}
    ELSE {}

\* Variant of MniMaskEdges in which the mask is resampled with the series'
\* transform list instead of its own.
MniMaskEdges_series_list ==
    {Conn("inputnode", "bold_split", "_first", "gen_ref", "moving_image"),
     Conn("inputnode", "bold_mask", "", "mask_mni_tfm", "input_image"),
     Conn("inputnode", "t1_2_mni_forward_transform", "", "mask_merge_tfms", "in1"),
     Conn("inputnode", "itk_bold_to_t1", "_aslist", "mask_merge_tfms", "in2"),
     Conn("merge_xforms", "out", "", "mask_mni_tfm", "transforms"),
     Conn("mask_mni_tfm", "output_image", "", "outputnode", "bold_mask_mni")}

\* first connect block: sampling reference and mask resampling
MniMaskEdges ==
    {Conn("inputnode", "bold_split", "_first", "gen_ref", "moving_image"),
     Conn("inputnode", "bold_mask", "", "mask_mni_tfm", "input_image"),
     Conn("inputnode", "t1_2_mni_forward_transform", "", "mask_merge_tfms", "in1"),
     Conn("inputnode", "itk_bold_to_t1", "_aslist", "mask_merge_tfms", "in2"),
     Conn("mask_merge_tfms", "out", "", "mask_mni_tfm", "transforms"),
     Conn("mask_mni_tfm", "output_image", "", "outputnode", "bold_mask_mni")}

\* bold_to_mni_transform, merge and the reference sub-workflow
MniSeriesNodes(use_compression) ==
    {Node("bold_to_mni_transform", "MultiApplyTransforms", 0,
          "interpolation=LanczosWindowedSinc,float=True,copy_dtype=True"),
     Node("merge", "Merge", 0, "compress=" \o PyBool(use_compression)),
     Node("gen_final_ref", "init_bold_reference_wf", 0, "pre_mask=True")}

\* second connect block: the series resampling
MniSeriesEdges ==
    {Conn("inputnode", "t1_2_mni_forward_transform", "", "merge_xforms", "in1"),
     Conn("inputnode", "itk_bold_to_t1", "_aslist", "merge_xforms", "in2"),
     Conn("merge_xforms", "out", "", "bold_to_mni_transform", "transforms"),
     Conn("inputnode", "name_source", "", "merge", "header_source"),
     Conn("inputnode", "bold_split", "", "bold_to_mni_transform", "input_image"),
     Conn("bold_to_mni_transform", "out_files", "", "merge", "in_files"),
     Conn("merge", "out_file", "", "gen_final_ref", "inputnode.bold_file"),
     Conn("mask_mni_tfm", "output_image", "", "gen_final_ref", "inputnode.bold_mask"),
     Conn("merge", "out_file", "", "outputnode", "bold_mni"),
     Conn("gen_final_ref", "outputnode.ref_image", "", "outputnode", "bold_mni_ref")}

\* Variant of MniRefEdges in which the series takes the final reference
\* (gen_final_ref) instead of the sampling reference (gen_ref).
MniRefEdges_final_ref(template_out_grid) ==
    IF template_out_grid = "native"
    THEN {Conn("gen_ref", "out_file", "", "mask_mni_tfm", "reference_image"),
          Conn("gen_final_ref", "outputnode.ref_image", "",
               "bold_to_mni_transform", "reference_image")}
    ELSE {}

\* template_out_grid == 'native': both references come from gen_ref
MniRefEdges(template_out_grid) ==
    IF template_out_grid = "native"
    THEN {Conn("gen_ref", "out_file", "", "mask_mni_tfm", "reference_image"),
          Conn("gen_ref", "out_file", "", "bold_to_mni_transform", "reference_image")}
    ELSE {}

\* Variant of MniRefInputs in which the mask also gets the template's T1 image.
MniRefInputs_t1_mask(template, template_out_grid) ==
    IF template_out_grid = "native" THEN {}
    ELSE IF template_out_grid = "1mm" \/ template_out_grid = "2mm"
    THEN {SetInput("mask_mni_tfm", "reference_image",
                   join(get_dataset(template_str(template)),
                        template_out_grid \o "_T1.nii.gz")),
          SetInput("bold_to_mni_transform", "reference_image",
                   join(get_dataset(template_str(template)),
                        template_out_grid \o "_T1.nii.gz"))}
    ELSE {SetInput("mask_mni_tfm", "reference_image", template_out_grid),
          SetInput("bold_to_mni_transform", "reference_image", template_out_grid)}

\* '1mm' / '2mm': template files; anything else but 'native': the string itself
MniRefInputs(template, template_out_grid) ==
    IF template_out_grid = "native" THEN {}
    ELSE IF template_out_grid = "1mm" \/ template_out_grid = "2mm"
    THEN {SetInput("mask_mni_tfm", "reference_image",
                   join(get_dataset(template_str(template)),
                        template_out_grid \o "_brainmask.nii.gz")),
          SetInput("bold_to_mni_transform", "reference_image",
                   join(get_dataset(template_str(template)),
                        template_out_grid \o "_T1.nii.gz"))}
    ELSE {SetInput("mask_mni_tfm", "reference_image", template_out_grid),
          SetInput("bold_to_mni_transform", "reference_image", template_out_grid)}

\* init_bold_mni_trans_wf(template, mem_gb, omp_nthreads, ...) is called
MniCall ==
    /\ mni_pc = "idle"
    /\ Resolves({"Workflow"})
    /\ \E fw \in BOOLEAN, grid \in Grids, cmp \in BOOLEAN :
          mni_args' = [template |-> Template, template_out_grid |-> grid,
                       use_compression |-> cmp, use_fieldwarp |-> fw]
    /\ mni_pc' = "io_nodes"
    /\ UNCHANGED <<mni_nodes, mni_edges, mni_inputs>>

MniCreateIONodes ==
    /\ mni_pc = "io_nodes"
    /\ Resolves({"pe", "niu"})
    /\ mni_nodes' = mni_nodes \cup MniIONodes
    /\ mni_pc' = "gen_ref"
    /\ UNCHANGED <<mni_args, mni_edges, mni_inputs>>

MniCreateGenRef ==
    /\ mni_pc = "gen_ref"
    /\ Resolves({"pe", "GenerateSamplingReference", "TEMPLATE_MAP", "op", "nid"})
    /\ mni_nodes' = mni_nodes \cup MniGenRefNodes
    /\ mni_inputs' = mni_inputs \cup MniGenRefInputs(mni_args.template)
    /\ mni_pc' = "mask_nodes"
    /\ UNCHANGED <<mni_args, mni_edges>>

MniCreateMaskNodes ==
    /\ mni_pc = "mask_nodes"
    /\ Resolves({"pe", "ApplyTransforms", "niu", "DEFAULT_MEMORY_MIN_GB"})
    /\ mni_nodes' = mni_nodes \cup MniMaskNodes
    /\ mni_pc' = "merge_xforms"
    /\ UNCHANGED <<mni_args, mni_edges, mni_inputs>>

MniCreateMergeXforms ==
    /\ mni_pc = "merge_xforms"
    /\ Resolves({"pe", "niu", "DEFAULT_MEMORY_MIN_GB"})
    /\ mni_nodes' = mni_nodes \cup MniMergeXformsNodes(mni_args.use_fieldwarp)
    /\ mni_edges' = mni_edges \cup MniHmcEdges(mni_args.use_fieldwarp)
    /\ mni_pc' = "fieldwarp"
    /\ UNCHANGED <<mni_args, mni_inputs>>

MniConnectFieldwarp ==
    /\ mni_pc = "fieldwarp"
    /\ mni_edges' = mni_edges \cup MniFieldwarpEdges(mni_args.use_fieldwarp)
    /\ mni_pc' = "connect_mask"
    /\ UNCHANGED <<mni_args, mni_nodes, mni_inputs>>

MniConnectMask ==
    /\ mni_pc = "connect_mask"
    /\ Resolves({"_first"})
    /\ mni_edges' = mni_edges \cup MniMaskEdges
    /\ mni_pc' = "series_nodes"
    /\ UNCHANGED <<mni_args, mni_nodes, mni_inputs>>

MniCreateSeriesNodes ==
    /\ mni_pc = "series_nodes"
    /\ Resolves({"pe", "MultiApplyTransforms", "Merge", "init_bold_reference_wf"})
    /\ mni_nodes' = mni_nodes \cup MniSeriesNodes(mni_args.use_compression)
    /\ mni_pc' = "connect_series"
    /\ UNCHANGED <<mni_args, mni_edges, mni_inputs>>

MniConnectSeries ==
    /\ mni_pc = "connect_series"
    /\ mni_edges' = mni_edges \cup MniSeriesEdges
    /\ mni_pc' = "reference"
    /\ UNCHANGED <<mni_args, mni_nodes, mni_inputs>>

MniSetReference ==
    /\ mni_pc = "reference"
    /\ Resolves({"op", "nid"})
    /\ mni_edges' = mni_edges \cup MniRefEdges(mni_args.template_out_grid)
    /\ mni_inputs' = mni_inputs
                       \cup MniRefInputs(mni_args.template, mni_args.template_out_grid)
    /\ mni_pc' = "return"
    /\ UNCHANGED <<mni_args, mni_nodes>>

MniReturn ==
    /\ mni_pc = "return"
    /\ mni_pc' = "returned"
    /\ UNCHANGED <<mni_args, mni_nodes, mni_edges, mni_inputs>>

---------------------------------------------------------------------------
(* init_dwi_preproc_trans_wf                                               *)

\* The statements of the body, in program order.
DwiStmts ==
    <<"autobox_t1", "deoblique_autobox", "resample_to_dwi", "dwi_info",
      "io_nodes", "series_nodes", "connect_series", "split", "xforms", "return">>

\* Global names each statement reads.
DwiStmtNames(stmt) ==
    CASE stmt = "autobox_t1"        -> {"pe", "afni"}
      [] stmt = "deoblique_autobox" -> {"pe", "afni"}
      [] stmt = "resample_to_dwi"   -> {"pe", "afni"}
      [] stmt = "dwi_info"          -> {"pe", "NiftiInfo"}
      [] stmt = "io_nodes"          -> {"pe", "niu"}
      [] stmt = "series_nodes"      -> {"pe", "MultiApplyTransforms", "Merge",
                                        "init_bold_reference_wf"}
      [] stmt = "split"             -> {"pe", "FSLSplit", "_first"}
      [] stmt = "xforms"            -> {"pe", "niu", "DEFAULT_MEMORY_MIN_GB"}
      [] OTHER                      -> {}

\* Nodes each statement creates.
DwiStmtNodes(stmt, args) ==
    CASE stmt = "autobox_t1" -> {Node("autobox_t1", "afni.Autobox", 0, "")}
      [] stmt = "deoblique_autobox" -> {Node("deoblique_autobox", "afni.Warp", 0, "")}
      [] stmt = "resample_to_dwi" -> {Node("resample_to_dwi", "afni.Resample", 0, "")}
      [] stmt = "dwi_info" -> {Node("dwi_info", "NiftiInfo", 0, "")}
      [] stmt = "io_nodes" ->
           {Node("inputnode", "niu.IdentityInterface", 0,
                 "fields=name_source,bold_file,bold_mask,hmc_xforms,fieldwarp"),
            Node("outputnode", "niu.IdentityInterface", 0,
                 "fields=bold,bold_mask,bold_ref,bold_ref_brain")}
      [] stmt = "series_nodes" ->
           {Node("bold_transform", "MultiApplyTransforms", 0,
                 "interpolation=" \o args.interpolation \o ",float=True,copy_dtype=True"),
            Node("merge", "Merge", 0, "compress=" \o PyBool(args.use_compression)),
            Node("bold_reference_wf", "init_bold_reference_wf", 0, "")}
      [] stmt = "split" ->
           IF args.split_file
           THEN {Node("bold_split", "FSLSplit", 0, "dimension=t")}
           ELSE {}
      [] stmt = "xforms" ->
           IF args.use_fieldwarp
           THEN {Node("merge_xforms", "niu.Merge", 2, "")}
           ELSE {}
      [] OTHER -> {}

\* Static inputs each statement sets.
DwiStmtInputs(stmt) ==
    CASE stmt = "autobox_t1" ->
           {SetInput("autobox_t1", "outputtype", "NIFTI_GZ"),
            SetInput("autobox_t1", "padding", "5")}
      [] stmt = "deoblique_autobox" ->
           {SetInput("deoblique_autobox", "deoblique", "True"),
            SetInput("deoblique_autobox", "outputtype", "NIFTI_GZ")}
      [] stmt = "resample_to_dwi" ->
           {SetInput("resample_to_dwi", "outputtype", "NIFTI_GZ")}
      [] OTHER -> {}

\* the unconditional connect block
DwiSeriesEdges ==
    {Conn("inputnode", "name_source", "", "merge", "header_source"),
     Conn("bold_transform", "out_files", "", "merge", "in_files"),
     Conn("merge", "out_file", "", "bold_reference_wf", "inputnode.bold_file"),
     Conn("merge", "out_file", "", "outputnode", "bold"),
     Conn("bold_reference_wf", "outputnode.ref_image", "", "outputnode", "bold_ref"),
     Conn("bold_reference_wf", "outputnode.ref_image_brain", "", "outputnode",
          "bold_ref_brain"),
     Conn("bold_reference_wf", "outputnode.bold_mask", "", "outputnode", "bold_mask")}

\* if split_file: ... else: ...
DwiSplitEdges(split_file) ==
    IF split_file
    THEN {Conn("inputnode", "bold_file", "", "bold_split", "in_file"),
          Conn("bold_split", "out_files", "", "bold_transform", "input_image"),
          Conn("bold_split", "out_files", "_first", "bold_transform", "reference_image")}
    ELSE {Conn("inputnode", "bold_file", "", "bold_transform", "input_image"),
          Conn("inputnode", "bold_file", "_first", "bold_transform", "reference_image")}

\* if use_fieldwarp: ... else: ...
DwiXformEdges(use_fieldwarp) ==
    IF use_fieldwarp
    THEN {Conn("inputnode", "fieldwarp", "", "merge_xforms", "in1"),
          Conn("inputnode", "hmc_xforms", "", "merge_xforms", "in2"),
          Conn("merge_xforms", "out", "", "bold_transform", "transforms")}
    ELSE {Conn("inputnode", "hmc_xforms", "_aslist", "bold_transform", "transforms")}

\* Connections each statement makes.
DwiStmtEdges(stmt, args) ==
    CASE stmt = "connect_series" -> DwiSeriesEdges
      [] stmt = "split"          -> DwiSplitEdges(args.split_file)
      [] stmt = "xforms"         -> DwiXformEdges(args.use_fieldwarp)
      [] OTHER                   -> {}

\* The statement after stmt; "returned" after the return statement.
DwiNextStmt(stmt) ==
    IF stmt = "return" THEN "returned"
    ELSE LET i == CHOOSE k \in 1..Len(DwiStmts) : DwiStmts[k] = stmt
         IN  DwiStmts[i + 1]

DwiRunning == \E k \in 1..Len(DwiStmts) : DwiStmts[k] = dwi_pc

\* init_dwi_preproc_trans_wf(mem_gb, omp_nthreads, ...) is called
DwiCall ==
    /\ dwi_pc = "idle"
    /\ Resolves({"Workflow"})
    /\ \E cmp \in BOOLEAN, fw \in BOOLEAN, sf \in BOOLEAN :
          dwi_args' = [use_compression |-> cmp, use_fieldwarp |-> fw,
                       split_file |-> sf, interpolation |-> "LanczosWindowedSinc"]
    /\ dwi_pc' = DwiStmts[1]
    /\ UNCHANGED <<dwi_nodes, dwi_edges, dwi_inputs, dwi_exc>>

\* The next statement of the body runs, or raises NameError on an unbound name.
DwiExec ==
    /\ DwiRunning
    /\ IF Resolves(DwiStmtNames(dwi_pc))
       THEN /\ dwi_nodes' = dwi_nodes \cup DwiStmtNodes(dwi_pc, dwi_args)
            /\ dwi_edges' = dwi_edges \cup DwiStmtEdges(dwi_pc, dwi_args)
            /\ dwi_inputs' = dwi_inputs \cup DwiStmtInputs(dwi_pc)
            /\ dwi_pc' = DwiNextStmt(dwi_pc)
            /\ UNCHANGED dwi_exc
       ELSE /\ dwi_pc' = "raised"
            /\ dwi_exc' = "NameError"
            /\ UNCHANGED <<dwi_nodes, dwi_edges, dwi_inputs>>
    /\ UNCHANGED dwi_args

---------------------------------------------------------------------------
(* The list-shaping helpers                                                *)

\* Longest list or tuple handed to a helper.
MaxLen == 2

\* Python values: a string, a list or a tuple; Unset marks "not computed",
\* IndexError the exception of indexing an empty sequence.
PyStr(s) == [kind |-> "str", atom |-> s, items |-> <<>>]
PyList(items) == [kind |-> "list", atom |-> "", items |-> items]
PyTuple(items) == [kind |-> "tuple", atom |-> "", items |-> items]
Unset == [kind |-> "unset", atom |-> "", items |-> <<>>]
IndexError == [kind |-> "IndexError", atom |-> "", items |-> <<>>]

SeqsUpTo(S, n) == UNION {[1..k -> S] : k \in 0..n}

\* File names, flat lists and tuples of them, and lists of any of those.
Atoms == {PyStr("vol0.nii.gz"), PyStr("bold2t1.txt")}
Flat == {PyList(q) : q \in SeqsUpTo(Atoms, MaxLen)}
          \cup {PyTuple(q) : q \in SeqsUpTo(Atoms, MaxLen)}
Values == Atoms \cup Flat \cup {PyList(q) : q \in SeqsUpTo(Atoms \cup Flat, MaxLen)}

\* isinstance(v, list)
IsList(v) == v.kind = "list"

\* Variant of mni_aslist that also passes tuples through unchanged.
mni_aslist_seq(v) == IF v.kind \in {"list", "tuple"} THEN v ELSE PyList(<<v>>)

\* _aslist of init_bold_mni_trans_wf
mni_aslist(v) == IF IsList(v) THEN v ELSE PyList(<<v>>)

\* _aslist of init_dwi_preproc_trans_wf
dwi_aslist(v) == PyList(<<v>>)

\* _first: inlist[0]
first(inlist) == IF Len(inlist.items) = 0 THEN IndexError ELSE inlist.items[1]

CallMniAslist ==
    /\ out_mni = Unset
    /\ out_mni' = mni_aslist(in_value)
    /\ UNCHANGED <<in_value, out_mni2, out_dwi, out_first>>

CallMniAslistAgain ==
    /\ out_mni # Unset
    /\ out_mni2 = Unset
    /\ out_mni2' = mni_aslist(out_mni)
    /\ UNCHANGED <<in_value, out_mni, out_dwi, out_first>>

CallDwiAslist ==
    /\ out_dwi = Unset
    /\ out_dwi' = dwi_aslist(in_value)
    /\ UNCHANGED <<in_value, out_mni, out_mni2, out_first>>

CallFirst ==
    /\ in_value.kind \in {"list", "tuple"}
    /\ out_first = Unset
    /\ out_first' = first(in_value)
    /\ UNCHANGED <<in_value, out_mni, out_mni2, out_dwi>>

---------------------------------------------------------------------------
(* Specifications                                                          *)

NoArgs == [template |-> "", template_out_grid |-> "",
           use_compression |-> FALSE, use_fieldwarp |-> FALSE]

NoDwiArgs == [use_compression |-> FALSE, use_fieldwarp |-> FALSE,
              split_file |-> FALSE, interpolation |-> ""]

InitWf ==
    /\ mni_pc = "idle" /\ mni_args = NoArgs
    /\ mni_nodes = {} /\ mni_edges = {} /\ mni_inputs = {}
    /\ dwi_pc = "idle" /\ dwi_args = NoDwiArgs
    /\ dwi_nodes = {} /\ dwi_edges = {} /\ dwi_inputs = {}
    /\ dwi_exc = ""

InitHelpers ==
    /\ out_mni = Unset /\ out_mni2 = Unset /\ out_dwi = Unset /\ out_first = Unset

\* The two builders, each called once with any arguments.
Init == InitWf /\ InitHelpers /\ in_value = Unset

Next ==
    \/ MniCall /\ UNCHANGED <<dwivars, helpervars>>
    \/ MniCreateIONodes /\ UNCHANGED <<dwivars, helpervars>>
    \/ MniCreateGenRef /\ UNCHANGED <<dwivars, helpervars>>
    \/ MniCreateMaskNodes /\ UNCHANGED <<dwivars, helpervars>>
    \/ MniCreateMergeXforms /\ UNCHANGED <<dwivars, helpervars>>
    \/ MniConnectFieldwarp /\ UNCHANGED <<dwivars, helpervars>>
    \/ MniConnectMask /\ UNCHANGED <<dwivars, helpervars>>
    \/ MniCreateSeriesNodes /\ UNCHANGED <<dwivars, helpervars>>
    \/ MniConnectSeries /\ UNCHANGED <<dwivars, helpervars>>
    \/ MniSetReference /\ UNCHANGED <<dwivars, helpervars>>
    \/ MniReturn /\ UNCHANGED <<dwivars, helpervars>>
    \/ DwiCall /\ UNCHANGED <<mnivars, helpervars>>
    \/ DwiExec /\ UNCHANGED <<mnivars, helpervars>>

Spec == Init /\ [][Next]_vars

\* The helpers, applied to every value of Values.
HelperInit == InitWf /\ InitHelpers /\ in_value \in Values

HelperNext ==
    \/ CallMniAslist /\ UNCHANGED wfvars
    \/ CallMniAslistAgain /\ UNCHANGED wfvars
    \/ CallDwiAslist /\ UNCHANGED wfvars
    \/ CallFirst /\ UNCHANGED wfvars

HelperSpec == HelperInit /\ [][HelperNext]_vars

---------------------------------------------------------------------------
(* Graph queries used by the properties                                    *)

\* Connections into a port, out of a field, and static values of a port.
Sources(E, node, port) == {e \in E : e.dst = node /\ e.inp = port}
Outgoing(E, node, field) == {e \in E : e.src = node /\ e.out = field}
Static(I, node, port) == {i \in I : i.node = node /\ i.port = port}

\* What a port is fed by, as <<source node, field, function>>.
Feeds(E, node, port) == {<<e.src, e.out, e.fn>> : e \in Sources(E, node, port)}

NodeNames(N) == {n.name : n \in N}
NodeNamed(N, name) == {n \in N : n.name = name}

Succs(E, S) == {e.dst : e \in {x \in E : x.src \in S}}

RECURSIVE Closure(_, _)
Closure(E, S) ==
    LET T == S \cup Succs(E, S)
    IN  IF T = S THEN S ELSE Closure(E, T)

\* Nodes reachable from n along at least one connection.
ReachPlus(E, n) == Closure(E, Succs(E, {n}))

Acyclic(E) ==
    /\ \A e \in E : e.dst # "inputnode" /\ e.src # "outputnode"
    /\ \A n \in {e.src : e \in E} \cup {e.dst : e \in E} : n \notin ReachPlus(E, n)

\* Nodes that apply transforms to an image.
XformNodes(N) ==
    {n.name : n \in {m \in N : m.iface \in {"ApplyTransforms", "MultiApplyTransforms"}}}

\* Every path from inputnode.<infield> to outputnode.<outfield> passes through
\* the transform-applying node T, once, and through no other such node.
OnePass(N, E, infield, outfield, T) ==
    LET starts == {e.dst : e \in Outgoing(E, "inputnode", infield)}
        ends   == {e.src : e \in Sources(E, "outputnode", outfield)}
        OnPath(x) == x \in Closure(E, starts) /\ ends \cap Closure(E, {x}) # {}
        NoT    == {e \in E : e.src # T /\ e.dst # T}
    IN  /\ ends \cap Closure(E, starts) # {}
        /\ {x \in XformNodes(N) : OnPath(x)} = {T}
        /\ ends \cap Closure(NoT, starts \ {T}) = {}
        /\ T \notin ReachPlus(E, T)

\* inputnode fields whose value reaches T.transforms, directly or through
\* the niu.Merge node that is the only source of that port.
XformFields(N, E, T) ==
    LET direct  == {e \in Sources(E, T, "transforms") : e.src = "inputnode"}
        mergers == {e.src : e \in Sources(E, T, "transforms")}
                     \cap {n.name : n \in {m \in N : m.iface = "niu.Merge"}}
    IN  {e.out : e \in direct}
          \cup {e.out : e \in {x \in E : x.src = "inputnode" /\ x.dst \in mergers}}

\* What feeds each of the slots in1..inN of a niu.Merge node, in slot order.
SlotFeeds(E, node, n) ==
    [k \in 1..n |-> Feeds(E, node, Slot(k))]

MniReturned == mni_pc = "returned"
DwiFinished == dwi_pc \in {"returned", "raised"}

---------------------------------------------------------------------------
(* Properties                                                              *)

\* C1 (mni half): in the returned graph of init_bold_mni_trans_wf every path
\* from inputnode.bold_split to outputnode.bold_mni passes through exactly one
\* transform-applying node, bold_to_mni_transform, whose 'transforms' port has
\* one source carrying all enabled transforms.
C1_MniSingleResampling ==
    MniReturned =>
      /\ OnePass(mni_nodes, mni_edges, "bold_split", "bold_mni", "bold_to_mni_transform")
      /\ Cardinality(Sources(mni_edges, "bold_to_mni_transform", "transforms")) = 1
      /\ Static(mni_inputs, "bold_to_mni_transform", "transforms") = {}
      /\ XformFields(mni_nodes, mni_edges, "bold_to_mni_transform")
           = {"t1_2_mni_forward_transform", "itk_bold_to_t1", "hmc_xforms"}
               \cup (IF mni_args.use_fieldwarp THEN {"fieldwarp"} ELSE {})

\* C1 (dwi half): once a call of init_dwi_preproc_trans_wf has ended, every
\* path from inputnode.bold_file to outputnode.bold passes through exactly one
\* transform-applying node, bold_transform, whose 'transforms' port has one
\* source carrying all enabled transforms.
C1_DwiSingleResampling ==
    DwiFinished =>
      /\ OnePass(dwi_nodes, dwi_edges, "bold_file", "bold", "bold_transform")
      /\ Cardinality(Sources(dwi_edges, "bold_transform", "transforms")) = 1
      /\ Static(dwi_inputs, "bold_transform", "transforms") = {}
      /\ XformFields(dwi_nodes, dwi_edges, "bold_transform")
           = {"hmc_xforms"} \cup (IF dwi_args.use_fieldwarp THEN {"fieldwarp"} ELSE {})

\* C1: single resampling step in both builders, for every flag combination.
C1_SingleResampling == C1_MniSingleResampling /\ C1_DwiSingleResampling

\* C2: after init_bold_mni_trans_wf returns, merge_xforms has 4 slots with
\* use_fieldwarp and 3 without, every slot has exactly one source, in the order
\* T1-to-MNI, BOLD-to-T1 (as a list), fieldwarp (if enabled), head motion;
\* merge_xforms.out alone feeds bold_to_mni_transform.transforms; and
\* inputnode.fieldwarp is connected iff use_fieldwarp.
C2_MergeXformsSlots ==
    MniReturned =>
      LET fw == mni_args.use_fieldwarp
          n  == IF fw THEN 4 ELSE 3
          t1 == {<<"inputnode", "t1_2_mni_forward_transform", "">>}
          b2 == {<<"inputnode", "itk_bold_to_t1", "_aslist">>}
          fd == {<<"inputnode", "fieldwarp", "">>}
          hm == {<<"inputnode", "hmc_xforms", "">>}
      IN  /\ \A m \in NodeNamed(mni_nodes, "merge_xforms") :
                m.iface = "niu.Merge" /\ m.n = n
          /\ Cardinality(NodeNamed(mni_nodes, "merge_xforms")) = 1
          /\ \A e \in mni_edges :
                e.dst = "merge_xforms" => \E k \in 1..n : e.inp = Slot(k)
          /\ SlotFeeds(mni_edges, "merge_xforms", n)
               = IF fw THEN <<t1, b2, fd, hm>> ELSE <<t1, b2, hm>>
          /\ Feeds(mni_edges, "bold_to_mni_transform", "transforms")
               = {<<"merge_xforms", "out", "">>}
          /\ (Outgoing(mni_edges, "inputnode", "fieldwarp") # {}) <=> fw

\* C2 witness: a returned graph with the field warp enabled and slot in4 fed.
C2_Witness ==
    /\ MniReturned
    /\ mni_args.use_fieldwarp
    /\ Sources(mni_edges, "merge_xforms", "in4") # {}
    /\ Sources(mni_edges, "merge_xforms", "in3") # {}

\* C3: once a call of init_dwi_preproc_trans_wf has ended,
\* bold_transform.transforms has exactly one source: with use_fieldwarp a
\* 2-slot merge_xforms fed [fieldwarp, hmc_xforms]; without it no merge_xforms
\* node, no connection from inputnode.fieldwarp, and hmc_xforms through _aslist.
C3_DwiTransformsSource ==
    DwiFinished =>
      /\ Cardinality(Sources(dwi_edges, "bold_transform", "transforms")) = 1
      /\ dwi_args.use_fieldwarp =>
           /\ \E m \in NodeNamed(dwi_nodes, "merge_xforms") : m.n = 2
           /\ SlotFeeds(dwi_edges, "merge_xforms", 2)
                = <<{<<"inputnode", "fieldwarp", "">>},
                    {<<"inputnode", "hmc_xforms", "">>}>>
           /\ Feeds(dwi_edges, "bold_transform", "transforms")
                = {<<"merge_xforms", "out", "">>}
      /\ ~dwi_args.use_fieldwarp =>
           /\ NodeNamed(dwi_nodes, "merge_xforms") = {}
           /\ Outgoing(dwi_edges, "inputnode", "fieldwarp") = {}
           /\ Feeds(dwi_edges, "bold_transform", "transforms")
                = {<<"inputnode", "hmc_xforms", "_aslist">>}

\* C4: a call of init_dwi_preproc_trans_wf, with any flags, never ends in an
\* exception: no statement fails on a name the module does not bind.
C4_DwiReturns == dwi_pc # "raised" /\ dwi_exc = ""

\* C5: at every point of both builders the graph is acyclic: nothing
\* connects into inputnode or out of outputnode, and no node reaches itself.
C5_Acyclic == Acyclic(mni_edges) /\ Acyclic(dwi_edges)

\* C5 witness: the complete native-grid graph with the field warp enabled,
\* where gen_ref feeds both resampling nodes.
C5_Witness ==
    /\ MniReturned
    /\ mni_args.use_fieldwarp
    /\ Feeds(mni_edges, "bold_to_mni_transform", "reference_image")
         = {<<"gen_ref", "out_file", "">>}
    /\ "outputnode" \in ReachPlus(mni_edges, "inputnode")

\* C6: after init_bold_mni_trans_wf returns, reference_image of mask_mni_tfm
\* and of bold_to_mni_transform is each set in exactly one way: 'native'
\* connects gen_ref.out_file to both; '1mm'/'2mm' sets the template's
\* '<grid>_brainmask.nii.gz' resp. '<grid>_T1.nii.gz'; any other string is the
\* reference of both, unchanged.  gen_ref feeds something only for 'native'.
C6_ReferenceImage ==
    MniReturned =>
      LET grid == mni_args.template_out_grid
          dir  == get_dataset(template_str(mni_args.template))
          RefE(x) == Feeds(mni_edges, x, "reference_image")
          RefS(x) == {i.value : i \in Static(mni_inputs, x, "reference_image")}
          Both == {"mask_mni_tfm", "bold_to_mni_transform"}
      IN  /\ \A x \in Both : Cardinality(RefE(x)) + Cardinality(RefS(x)) = 1
          /\ grid = "native" =>
               \A x \in Both : RefE(x) = {<<"gen_ref", "out_file", "">>}
          /\ grid = "1mm" =>
               /\ RefS("mask_mni_tfm") = {dir \o "/1mm_brainmask.nii.gz"}
               /\ RefS("bold_to_mni_transform") = {dir \o "/1mm_T1.nii.gz"}
          /\ grid = "2mm" =>
               /\ RefS("mask_mni_tfm") = {dir \o "/2mm_brainmask.nii.gz"}
               /\ RefS("bold_to_mni_transform") = {dir \o "/2mm_T1.nii.gz"}
          /\ grid \notin {"native", "1mm", "2mm"} =>
               \A x \in Both : RefS(x) = {grid}
          /\ ({e \in mni_edges : e.src = "gen_ref"} # {}) => grid = "native"

\* C6 witness: a returned graph for the '2mm' grid with a static mask reference.
C6_Witness ==
    /\ MniReturned
    /\ mni_args.template_out_grid = "2mm"
    /\ Static(mni_inputs, "mask_mni_tfm", "reference_image") # {}

\* C7: once a call of init_dwi_preproc_trans_wf has ended, a bold_split node
\* exists iff split_file; input_image and reference_image of bold_transform
\* have one source each, the same list of volumes (bold_split.out_files with
\* split_file, inputnode.bold_file without), reference_image through _first.
C7_DwiSplit ==
    DwiFinished =>
      LET vols == IF dwi_args.split_file THEN <<"bold_split", "out_files">>
                  ELSE <<"inputnode", "bold_file">>
      IN  /\ (NodeNamed(dwi_nodes, "bold_split") # {}) <=> dwi_args.split_file
          /\ Feeds(dwi_edges, "bold_transform", "input_image")
               = {<<vols[1], vols[2], "">>}
          /\ Feeds(dwi_edges, "bold_transform", "reference_image")
               = {<<vols[1], vols[2], "_first">>}

\* C8: after init_bold_mni_trans_wf returns, mask_merge_tfms has 2 slots fed
\* [t1_2_mni_forward_transform, itk_bold_to_t1] whatever use_fieldwarp is, gets
\* neither hmc_xforms nor fieldwarp, alone feeds mask_mni_tfm.transforms, and
\* mask_mni_tfm.output_image is the single source of outputnode.bold_mask_mni
\* and of gen_final_ref's inputnode.bold_mask.
C8_MaskTransforms ==
    MniReturned =>
      /\ \E m \in NodeNamed(mni_nodes, "mask_merge_tfms") : m.n = 2
      /\ Cardinality(NodeNamed(mni_nodes, "mask_merge_tfms")) = 1
      /\ SlotFeeds(mni_edges, "mask_merge_tfms", 2)
           = <<{<<"inputnode", "t1_2_mni_forward_transform", "">>},
               {<<"inputnode", "itk_bold_to_t1", "_aslist">>}>>
      /\ \A e \in mni_edges :
            e.dst = "mask_merge_tfms" =>
              e.inp \in {"in1", "in2"} /\ e.out \notin {"hmc_xforms", "fieldwarp"}
      /\ Feeds(mni_edges, "mask_mni_tfm", "transforms")
           = {<<"mask_merge_tfms", "out", "">>}
      /\ Feeds(mni_edges, "outputnode", "bold_mask_mni")
           = {<<"mask_mni_tfm", "output_image", "">>}
      /\ Feeds(mni_edges, "gen_final_ref", "inputnode.bold_mask")
           = {<<"mask_mni_tfm", "output_image", "">>}

\* C8 witness: a returned graph with the field warp enabled, where the series
\* list has four entries and the mask list is fed.
C8_Witness ==
    /\ MniReturned
    /\ mni_args.use_fieldwarp
    /\ Sources(mni_edges, "mask_merge_tfms", "in2") # {}
    /\ Sources(mni_edges, "gen_final_ref", "inputnode.bold_mask") # {}

\* C9: once a call of init_dwi_preproc_trans_wf has ended, each of
\* outputnode's bold, bold_mask, bold_ref and bold_ref_brain has exactly one
\* source; the last three come from bold_reference_wf, which is fed only by
\* merge.out_file; and inputnode.bold_mask is connected to nothing.
C9_DwiOutputs ==
    DwiFinished =>
      /\ Feeds(dwi_edges, "outputnode", "bold") = {<<"merge", "out_file", "">>}
      /\ Feeds(dwi_edges, "outputnode", "bold_mask")
           = {<<"bold_reference_wf", "outputnode.bold_mask", "">>}
      /\ Feeds(dwi_edges, "outputnode", "bold_ref")
           = {<<"bold_reference_wf", "outputnode.ref_image", "">>}
      /\ Feeds(dwi_edges, "outputnode", "bold_ref_brain")
           = {<<"bold_reference_wf", "outputnode.ref_image_brain", "">>}
      /\ {<<e.src, e.out, e.inp>> : e \in {x \in dwi_edges : x.dst = "bold_reference_wf"}}
           = {<<"merge", "out_file", "inputnode.bold_file">>}
      /\ Outgoing(dwi_edges, "inputnode", "bold_mask") = {}

\* C10: _aslist of init_bold_mni_trans_wf returns a list for every input: a
\* list unchanged, any other value v as [v], and applied to its own result it
\* changes nothing.  _aslist of init_dwi_preproc_trans_wf always returns
\* [val].  The two results are equal exactly when the input is not a list.
C10_Aslist ==
    /\ out_mni # Unset =>
         /\ out_mni.kind = "list"
         /\ in_value.kind = "list" => out_mni = in_value
         /\ in_value.kind # "list" =>
              out_mni.items = <<in_value>> /\ Len(out_mni.items) = 1
    /\ out_mni2 # Unset => out_mni2 = out_mni
    /\ out_dwi # Unset =>
         out_dwi.kind = "list" /\ out_dwi.items = <<in_value>>
    /\ (out_mni # Unset /\ out_dwi # Unset) =>
         ((out_mni = out_dwi) <=> in_value.kind # "list")

\* C10 witness: a two-element list went through both helpers, and through the
\* first one twice, and the two helpers' results differ.
C10_Witness ==
    /\ in_value.kind = "list"
    /\ Len(in_value.items) = 2
    /\ out_mni2 # Unset
    /\ out_dwi # Unset
    /\ out_mni # out_dwi

====
